---------------------------- MODULE Spec2Model ----------------------------
(***************************************************************************)
(* A model of the songbooks site builder: build.py (manifest, supporter    *)
(* statistics, per-edition PDF processing, rendering) and its older        *)
(* variant main.py (the same build without the supporter statistics).      *)
(*                                                                         *)
(* Spec      : get_buymeacoffee_stats() called on its own, as the tests of *)
(*             test_build.py call it, against an arbitrary server.         *)
(* FairSpec  : Spec with the fairness a running Python interpreter gives.  *)
(* BuildSpec : the __main__ block of build.py or of main.py.               *)
(* SubsSpec  : get_buymeacoffee_subscriptions() called on its own.         *)
(***************************************************************************)
EXTENDS Integers, Sequences, FiniteSets, TLC

VARIABLES
    script,          \* the entry point that runs: test_build.py, build.py, main.py
    api_token,       \* os.environ.get('BUYMEACOFFEE_API_TOKEN')
    pc,              \* position in the supporters function that runs
    page,            \* local `page`
    all_supporters,  \* local `all_supporters`
    requests,        \* the GET requests issued so far (page, per_page), in order
    responses,       \* what the server answered to each of them, in order
    result,          \* the value that function returned
    mpc,             \* position in the __main__ block
    manifest,        \* the parsed manifest.json
    idx,             \* number of editions the for loop has taken
    fetched,         \* the document each process_pdf_url call downloaded
    songbooks,       \* list `songbooks`
    supporter_stats, \* `supporter_stats` of build.py
    html,            \* the render model render_index was given
    written,         \* the files this run has written, in order
    abort            \* the uncaught exception that ended the run, if any

statsVars == <<api_token, pc, page, all_supporters, requests, responses, result>>
mainVars  == <<mpc, manifest, idx, fetched, songbooks, supporter_stats, html,
               written, abort>>
vars      == <<script, statsVars, mainVars>>

-----------------------------------------------------------------------------
(* Bounds of the model.                                                    *)

\* Records in a collection that holds records of every kind.
MaxRecords == 2
\* Editions in a manifest.
MaxEditions == 2
\* Pages the supporters collection has when the whole build runs.
BuildPages == 1

-----------------------------------------------------------------------------
(* Python values.                                                          *)

\* Python's None, for the variables that hold a string otherwise.
None == "None"
\* An absent environment variable or dict key.
Missing == "<missing>"

\* A float is NaN or a finite value, held in quarters (q = 4 * value).  The
\* field values of Records are multiples of 1/2, so products are exact.
Unit == 4
NaN == [nan |-> TRUE, q |-> 0]
Float(q) == [nan |-> FALSE, q |-> q]
FloatMul(a, b) == IF a.nan \/ b.nan THEN NaN ELSE Float((a.q * b.q) \div Unit)
FloatAdd(a, b) == IF a.nan \/ b.nan THEN NaN ELSE Float(a.q + b.q)

\* int(x) of a finite float: truncation toward zero.
IntOf(x) == IF x.q >= 0 THEN x.q \div Unit ELSE -((-x.q) \div Unit)

-----------------------------------------------------------------------------
(* The records of the supporters API.                                      *)

\* A field of a record: absent, a JSON number, a string that float() parses
\* to a finite number, the string 'nan', another string, or null.
Absent     == [t |-> "absent", q |-> 0]
Num(q)     == [t |-> "number", q |-> q]
NumStr(q)  == [t |-> "numeric_str", q |-> q]
NanStr     == [t |-> "nan_str", q |-> 0]
Text       == [t |-> "text", q |-> 0]
Null       == [t |-> "null", q |-> 0]

Supporter(c, p) == [object |-> TRUE, support_coffees |-> c, support_coffee_price |-> p]

\* {'support_coffees': '5', 'support_coffee_price': '4'}: 20
ValidRecord      == Supporter(NumStr(5 * Unit), NumStr(4 * Unit))
\* {'support_coffees': 'invalid', 'support_coffee_price': null}
BadRecord        == Supporter(Text, Null)
\* {'support_coffees': '-2'}: -2 * 3 = -6, with the default price
NegativeRecord   == Supporter(NumStr(-2 * Unit), Absent)
\* {'support_coffees': 1, 'support_coffee_price': '4.5'}: 4.5
FractionRecord   == Supporter(Num(Unit), NumStr(18))
\* {'support_coffees': 'nan', 'support_coffee_price': '3'}
NanRecord        == Supporter(NanStr, NumStr(3 * Unit))
\* an element of "data" that is not a JSON object, such as "x"
NotAnObject      == [object |-> FALSE, support_coffees |-> Absent,
                     support_coffee_price |-> Absent]

Records == {ValidRecord, BadRecord, NegativeRecord, FractionRecord, NanRecord,
            NotAnObject}

-----------------------------------------------------------------------------
(* The server: what one GET of /api/v1/supporters can produce.             *)

Response(kind, exc, status, json, data, records, next) ==
    [kind |-> kind, exc |-> exc, status_code |-> status, json |-> json,
     data |-> data, records |-> records, next_page_url |-> next]

\* requests.get raises: a requests.RequestException (timeout, connection
\* refused) or, as the test's mock does, a plain Exception.
TransportErrors ==
    {Response("transport_error", e, 0, "invalid", Missing, <<>>, Missing) :
        e \in {"RequestException", "Exception"}}

\* An answer whose status is not 200, its body a JSON object such as
\* {"error": "Unauthorized"}.
StatusErrors ==
    {Response("http", "", code, "object", Missing, <<>>, Missing) :
        code \in {401, 500}}

\* Status 200 with a body that is not JSON, or is JSON but not an object.
MalformedBodies ==
    {Response("http", "", 200, j, Missing, <<>>, Missing) : j \in {"invalid", "array"}}

NextPageUrls == {Missing, "null", "url"}

\* Status 200, a JSON object without a record: "data" absent, null or [].
EmptyPages ==
    {Response("http", "", 200, "object", d, <<>>, n) :
        d \in {Missing, "null", "list"}, n \in NextPageUrls}

\* The non-empty record lists of at most n records.
RecordLists(n) == UNION {[1..k -> Records] : k \in 1..n}

\* The record lists a page can hold once the records of `collected` were
\* served: the server holds a short collection of records of any kind, or
\* a collection of any length of valid records, one to a page.
PageLists(collected) ==
    (IF \A i \in 1..Len(collected) : collected[i] = ValidRecord
     THEN {<<ValidRecord>>} ELSE {})
    \cup
    (IF Len(collected) < MaxRecords
     THEN RecordLists(MaxRecords - Len(collected)) ELSE {})

RecordPages(collected) ==
    {Response("http", "", 200, "object", "list", rs, n) :
        rs \in PageLists(collected), n \in NextPageUrls}

Responses(collected) ==
    TransportErrors \cup StatusErrors \cup MalformedBodies \cup EmptyPages
        \cup RecordPages(collected)

\* A response that neither raises nor carries a status other than 200, and
\* whose body is the JSON object the API documents.
IsSuccess(resp) ==
    resp.kind = "http" /\ resp.status_code = 200 /\ resp.json = "object"

\* A page that ends the pagination: no record, or no next page.
EndsPaging(resp) ==
    resp.records = <<>> \/ resp.next_page_url \in {Missing, "null"}

\* A transport error or a status other than 200.
IsError(resp) ==
    resp.kind = "transport_error" \/ (resp.kind = "http" /\ resp.status_code # 200)

\* A page with records that names a next page.
Continues(resp) ==
    IsSuccess(resp) /\ resp.records # <<>> /\ resp.next_page_url = "url"

-----------------------------------------------------------------------------
(* get_buymeacoffee_stats.                                                 *)

MaxPages == 100
page_size == 50
FallbackAmount == 912
FallbackCount == 61
DefaultCoffees == 0
DefaultPrice == 3

fallback_stats ==
    [total_amount |-> FallbackAmount, supporter_count |-> FallbackCount,
     currency |-> "€"]

\* The value of `result` and `supporter_stats` before they are assigned.
NoStats == [total_amount |-> 0, supporter_count |-> 0, currency |-> None]

\* `not api_token`
NoTokenUnsetOnly(token) == token = Missing
NoToken(token) == token = Missing \/ token = ""

\* `response.status_code != 200`
BadStatusServerOnly(resp) == resp.status_code >= 500
BadStatus(resp) == resp.status_code # 200

\* data.get('data', []): the default only when the key is absent.
Supporters(resp) == IF resp.data = "list" THEN resp.records ELSE <<>>

\* `not supporters`: an absent key gives [], null gives None, both falsy.
NoSupportersEmptyListOnly(resp) == resp.data = "list" /\ resp.records = <<>>
NoSupporters(resp) == resp.data # "list" \/ resp.records = <<>>

\* data.get('next_page_url') is None
IsLastPageAbsentOnly(resp) == resp.next_page_url = Missing
IsLastPage(resp) == resp.next_page_url \in {Missing, "null"}

\* `if page > 100`, evaluated after page += 1
PastCapOffByOne(p) == p > MaxPages + 1
PastCap(p) == p > MaxPages

\* float(x) raises ValueError for a non-numeric string, TypeError for None.
Converts(f) == f.t \notin {"text", "null"}

\* float(supporter.get(key, default))
FloatOf(f, default) ==
    IF f.t = "absent" THEN Float(default * Unit)
    ELSE IF f.t = "nan_str" THEN NaN
    ELSE Float(f.q)

BothConvert(s) == Converts(s.support_coffees) /\ Converts(s.support_coffee_price)

\* coffees * price
Amount(s) ==
    FloatMul(FloatOf(s.support_coffees, DefaultCoffees),
             FloatOf(s.support_coffee_price, DefaultPrice))

\* What one record adds to total_amount, in quarters: nothing when a
\* conversion raises and the record is skipped.
Contribution(s) == IF BothConvert(s) THEN Amount(s).q ELSE 0

\* The contributions of the n records of `list` from index `first` on.
RECURSIVE BlockTotal(_, _, _)
BlockTotal(list, first, n) ==
    IF n = 0 THEN 0
    ELSE BlockTotal(list, first, n - 1) + Contribution(list[first + n - 1])

\* The contributions of the first n records of `list`, ten records at a
\* time so that the 100 records of a full run are summed in a shallow
\* evaluation.
RECURSIVE PrefixTotal(_, _)
PrefixTotal(list, n) ==
    IF n = 0 THEN 0
    ELSE IF n % 10 # 0
    THEN PrefixTotal(list, n - (n % 10)) + BlockTotal(list, n - (n % 10) + 1, n % 10)
    ELSE PrefixTotal(list, n - 10) + BlockTotal(list, n - 9, 10)

\* The for loop of lines 93-102: total_amount after the records of `list`.
\* A NaN amount makes every later sum NaN.
TotalAmount(list) ==
    IF \E i \in 1..Len(list) : BothConvert(list[i]) /\ Amount(list[i]).nan
    THEN NaN
    ELSE Float(PrefixTotal(list, Len(list)))

\* len(all_supporters)
SupporterCountConverted(list) == Len(SelectSeq(list, BothConvert))
SupporterCount(list) == Len(list)

ReturnPcs == {"return_39", "return_67", "return_106", "return_114", "return_117"}
Returned == pc \in ReturnPcs

\* Lines 28-50: the token check and the locals set up before the loop.
CheckToken ==
    /\ pc = "start"
    /\ IF NoToken(api_token)
       THEN /\ pc' = "return_39"
            /\ result' = fallback_stats
            /\ UNCHANGED <<page, all_supporters>>
       ELSE /\ pc' = "loop"
            /\ page' = 1
            /\ all_supporters' = <<>>
            /\ UNCHANGED result
    /\ UNCHANGED <<api_token, requests, responses>>

\* An exception or a bad status inside the try block: the fallback.
ReturnFallback(line) ==
    /\ pc' = line
    /\ result' = fallback_stats
    /\ UNCHANGED <<page, all_supporters>>

\* `break`
LeaveLoop ==
    /\ pc' = "totals"
    /\ UNCHANGED result

\* Lines 52-87 and the handlers of 112-117: one iteration of `while True`,
\* the server answering `resp`.
FetchPage(resp) ==
    /\ pc = "loop"
    /\ requests' = Append(requests, [page |-> page, per_page |-> page_size])
    /\ responses' = Append(responses, resp)
    /\ IF resp.kind = "transport_error"
       THEN ReturnFallback(IF resp.exc = "RequestException"
                           THEN "return_114" ELSE "return_117")
       ELSE IF BadStatus(resp)
       THEN ReturnFallback("return_67")
       ELSE IF resp.json = "invalid"
       THEN \* response.json() raises: requests' JSONDecodeError is a
            \* RequestException from 2.27 on, a plain ValueError before.
            \E line \in {"return_114", "return_117"} : ReturnFallback(line)
       ELSE IF resp.json = "array"
       THEN \* data.get raises AttributeError
            ReturnFallback("return_117")
       ELSE IF NoSupporters(resp)
       THEN LeaveLoop /\ UNCHANGED <<page, all_supporters>>
       ELSE /\ all_supporters' = all_supporters \o Supporters(resp)
            /\ IF IsLastPage(resp)
               THEN LeaveLoop /\ UNCHANGED page
               ELSE /\ page' = page + 1
                    /\ IF PastCap(page + 1)
                       THEN LeaveLoop
                       ELSE pc' = "loop" /\ UNCHANGED result
    /\ UNCHANGED api_token

\* Lines 89-110 and the handler of 115-117: the totals and the return.
ComputeTotals ==
    /\ pc = "totals"
    /\ IF \E i \in 1..Len(all_supporters) : ~all_supporters[i].object
       THEN \* supporter.get raises AttributeError
            ReturnFallback("return_117")
       ELSE LET total_amount == TotalAmount(all_supporters)
            IN  IF total_amount.nan
                THEN \* int(nan) raises ValueError
                     ReturnFallback("return_117")
                ELSE /\ pc' = "return_106"
                     /\ result' = [total_amount |-> IntOf(total_amount),
                                   supporter_count |-> SupporterCount(all_supporters),
                                   currency |-> "€"]
                     /\ UNCHANGED <<page, all_supporters>>
    /\ UNCHANGED <<api_token, requests, responses>>


-----------------------------------------------------------------------------
(* The function called on its own.                                         *)

ApiTokens == {Missing, "", "test-token"}

\* The values of `manifest` and `html` before they are assigned.
NoManifest == [has_editions |-> FALSE, last_updated_utc |-> None, editions |-> <<>>]
NoHtml == [files |-> <<>>, last_updated |-> None, base_url |-> None,
           supporter_stats |-> NoStats]

Init ==
    /\ script = "test_build.py"
    /\ api_token \in ApiTokens
    /\ pc = "start"
    /\ page = 0
    /\ all_supporters = <<>>
    /\ requests = <<>>
    /\ responses = <<>>
    /\ result = NoStats
    /\ mpc = "none"
    /\ manifest = NoManifest
    /\ idx = 0
    /\ fetched = <<>>
    /\ songbooks = <<>>
    /\ supporter_stats = NoStats
    /\ html = NoHtml
    /\ written = <<>>
    /\ abort = ""

\* One step of get_buymeacoffee_stats against a server that may answer
\* anything.
Next ==
    \/ CheckToken /\ UNCHANGED <<script, mainVars>>
    \/ /\ pc = "loop"
       /\ \E resp \in Responses(all_supporters) : FetchPage(resp)
       /\ UNCHANGED <<script, mainVars>>
    \/ ComputeTotals /\ UNCHANGED <<script, mainVars>>

Spec == Init /\ [][Next]_vars

\* The interpreter runs the function's statements one after the other and
\* each requests.get returns or raises within its timeout of 10 seconds:
\* a step that can be taken is taken.
FairSpec == Spec /\ WF_vars(Next)

-----------------------------------------------------------------------------
(* The manifest and the documents of a build.                              *)

BASE_URL == "https://songbooks.ukuleletuesday.ie"
OUTPUT_DIR == "public"
\* os.path.join(OUTPUT_DIR, 'previews')
PREVIEW_DIR == OUTPUT_DIR \o "/" \o "previews"

\* The keys of "editions": any JSON string is a key, the empty one too.
Identifiers == {"", "regular", "christmas"}

PdfUrl(name) == "https://example.com/" \o name \o ".pdf"

\* The sequences of n distinct identifiers: a JSON object parsed into a
\* dict keeps each key once, in the order of first appearance.
Orders(n) ==
    {o \in [1..n -> Identifiers] : \A i, j \in 1..n : i # j => o[i] # o[j]}

\* The "editions" of n entries: each names its "url", or lacks the key.
EditionLists(n) ==
    {[i \in 1..n |-> [name |-> o[i],
                      url |-> IF has[i] THEN PdfUrl(o[i]) ELSE Missing]] :
        o \in Orders(n), has \in [1..n -> BOOLEAN]}

\* The manifests json.loads can return: an object with or without
\* "editions".
Manifests ==
    {[has_editions |-> FALSE, last_updated_utc |-> "2024-01-01T12:00:00Z",
      editions |-> <<>>]}
    \cup
    {[has_editions |-> TRUE, last_updated_utc |-> "2024-01-01T12:00:00Z",
      editions |-> es] :
        es \in UNION {EditionLists(n) : n \in 0..MaxEditions}}

\* What fetching and opening one PDF gives: urlopen raises, fitz.open
\* raises, or a document with its page count and embedded metadata.
Document(status, pages, title, subject) ==
    [status |-> status, pages |-> pages, title |-> title, subject |-> subject]

Documents ==
    {Document("download_error", 0, Missing, Missing),
     Document("parse_error", 0, Missing, Missing),
     Document("ok", 2, "Ukulele Tuesday Songbook", "Folk Songs"),
     Document("ok", 1, Missing, Missing),
     Document("ok", 1, "", "Folk Songs"),
     Document("ok", 0, "", Missing),
     Document("ok", 0, "Ukulele Tuesday Songbook", Missing)}

-----------------------------------------------------------------------------
(* process_pdf_url.                                                        *)

\* download_pdf_from_url or fitz.open raises.
FailsDownloadOnly(doc) == doc.status = "download_error"
Fails(doc) == doc.status # "ok"

\* `if len(pdf_document) > 0`
HasPagesAlways(doc) == TRUE
HasPagesMoreThanOne(doc) == doc.pages > 1
HasPages(doc) == doc.pages > 0

\* metadata.get('title') or edition_name
Title(doc, edition_name) ==
    IF doc.title = Missing \/ doc.title = "" THEN edition_name ELSE doc.title

\* metadata.get('subject', '')
Subject(doc) == IF doc.subject = Missing THEN "" ELSE doc.subject

\* preview_filename and the two paths made of it
PreviewFilename(edition_name) == edition_name \o ".png"
PreviewPathAbs(edition_name) == PREVIEW_DIR \o "/" \o PreviewFilename(edition_name)
PreviewImageNoDir(edition_name) == PreviewFilename(edition_name)
PreviewImage(edition_name) == "previews/" \o PreviewFilename(edition_name)

-----------------------------------------------------------------------------
(* The __main__ block of build.py (lines 172-200) and main.py (73-97).     *)

\* The answers of the server while a build runs: the collection holds at
\* most BuildPages pages of one valid record each.
BuildResponses(p) ==
    TransportErrors \cup StatusErrors
    \cup {Response("http", "", 200, "object", "list", <<>>, Missing)}
    \cup {Response("http", "", 200, "object", "list", <<ValidRecord>>, n) :
            n \in IF p < BuildPages THEN {"null", "url"} ELSE {"null"}}

Abort(reason) ==
    /\ mpc' = "aborted"
    /\ abort' = reason

\* get_manifest raises: the bucket is unreachable or manifest.json is not
\* JSON.  Nothing was created yet.
ManifestFails ==
    /\ mpc = "start"
    /\ \E reason \in {"unreachable", "JSONDecodeError"} : Abort(reason)
    /\ UNCHANGED <<script, statsVars, manifest, idx, fetched, songbooks,
                   supporter_stats, html, written>>

\* get_manifest returns m; songbooks = [], the previews directory is made.
GetManifest(m) ==
    /\ mpc = "start"
    /\ manifest' = m
    /\ songbooks' = <<>>
    /\ IF script = "build.py"
       THEN mpc' = "stats" /\ pc' = "start"
       ELSE mpc' = "loop" /\ UNCHANGED pc
    /\ UNCHANGED <<script, api_token, page, all_supporters, requests, responses,
                   result, idx, fetched, supporter_stats, html, written, abort>>

\* build.py line 183: one step of the call of get_buymeacoffee_stats.
StatsCall(step) ==
    /\ mpc = "stats"
    /\ step
    /\ UNCHANGED <<script, mainVars>>

\* build.py line 183: the call returns and its value is assigned.
StatsReturn ==
    /\ mpc = "stats"
    /\ Returned
    /\ supporter_stats' = result
    /\ mpc' = "loop"
    /\ UNCHANGED <<script, statsVars, manifest, idx, fetched, songbooks, html,
                   written, abort>>

\* manifest['editions'] raises KeyError.
NoEditions ==
    /\ mpc = "loop"
    /\ ~manifest.has_editions
    /\ Abort("KeyError: 'editions'")
    /\ UNCHANGED <<script, statsVars, manifest, idx, fetched, songbooks,
                   supporter_stats, html, written>>

\* One iteration of the for loop: process_pdf_url on the next edition, the
\* download giving `doc`, and the append to songbooks.
ProcessEdition(doc) ==
    /\ mpc = "loop"
    /\ manifest.has_editions
    /\ idx < Len(manifest.editions)
    /\ LET edition_name == manifest.editions[idx + 1].name
           url == manifest.editions[idx + 1].url
       IN  IF url = Missing
           THEN \* edition_info['url'] raises KeyError
                /\ Abort("KeyError: 'url'")
                /\ UNCHANGED <<idx, fetched, songbooks, written>>
           ELSE /\ fetched' = Append(fetched, doc)
                /\ IF Fails(doc)
                   THEN /\ Abort(doc.status)
                        /\ UNCHANGED <<idx, songbooks, written>>
                   ELSE /\ written' = IF HasPages(doc)
                                      THEN Append(written, PreviewPathAbs(edition_name))
                                      ELSE written
                        /\ songbooks' = Append(songbooks,
                               [title |-> Title(doc, edition_name),
                                subject |-> Subject(doc),
                                url |-> url,
                                preview_image |-> PreviewImage(edition_name)])
                        /\ idx' = idx + 1
                        /\ UNCHANGED <<mpc, abort>>
    /\ UNCHANGED <<script, statsVars, manifest, supporter_stats, html>>

\* The loop is over: html = render_index(...).  main.py passes no
\* supporter_stats.
Render ==
    /\ mpc = "loop"
    /\ manifest.has_editions
    /\ idx = Len(manifest.editions)
    /\ html' = [files |-> songbooks,
                last_updated |-> manifest.last_updated_utc,
                base_url |-> BASE_URL,
                supporter_stats |-> supporter_stats]
    /\ mpc' = "write"
    /\ UNCHANGED <<script, statsVars, manifest, idx, fetched, songbooks,
                   supporter_stats, written, abort>>

\* write_output(html)
WriteOutput ==
    /\ mpc = "write"
    /\ written' = Append(written, OUTPUT_DIR \o "/" \o "index.html")
    /\ mpc' = "done"
    /\ UNCHANGED <<script, statsVars, manifest, idx, fetched, songbooks,
                   supporter_stats, html, abort>>

BuildInit ==
    /\ script \in {"build.py", "main.py"}
    /\ api_token \in ApiTokens
    /\ pc = "idle"
    /\ page = 0
    /\ all_supporters = <<>>
    /\ requests = <<>>
    /\ responses = <<>>
    /\ result = NoStats
    /\ mpc = "start"
    /\ manifest = NoManifest
    /\ idx = 0
    /\ fetched = <<>>
    /\ songbooks = <<>>
    /\ supporter_stats = NoStats
    /\ html = NoHtml
    /\ written = <<>>
    /\ abort = ""

BuildNext ==
    \/ ManifestFails
    \/ \E m \in Manifests : GetManifest(m)
    \/ StatsCall(CheckToken)
    \/ StatsCall(pc = "loop" /\ \E resp \in BuildResponses(page) : FetchPage(resp))
    \/ StatsCall(ComputeTotals)
    \/ StatsReturn
    \/ NoEditions
    \/ \E doc \in Documents : ProcessEdition(doc)
    \/ Render
    \/ WriteOutput

BuildSpec == BuildInit /\ [][BuildNext]_vars

-----------------------------------------------------------------------------
(* get_buymeacoffee_subscriptions.  test_build.py imports it from build.py *)
(* and calls it (lines 239-358); its body is written down from section 4.4 *)
(* of the specification: the pagination of get_buymeacoffee_stats over     *)
(* /api/v1/subscriptions?status=active, a filter on payer_name, and an     *)
(* empty list on a missing credential or on any failure.                   *)

\* The payer_name of a record: absent, empty, blank, or a name.
PayerNames == {Missing, "", "   ", "Valid Name", "John Doe"}

Subscription(name) == [object |-> TRUE, payer_name |-> name]
Subscriptions == {Subscription(n) : n \in PayerNames}

\* str.strip() on the names above.
Strip(name) == IF name = "   " THEN "" ELSE name

\* The record has a display name: present and not empty once trimmed.
KeepsNameUntrimmed(s) == s.payer_name # Missing /\ s.payer_name # ""
KeepsName(s) == s.payer_name # Missing /\ Strip(s.payer_name) # ""

\* The names of the records kept, in the order of the records.
ActiveNames(list) ==
    LET kept == SelectSeq(list, KeepsName)
    IN  [i \in 1..Len(kept) |-> kept[i].payer_name]

\* The non-empty subscription lists of at most n records.
SubscriptionLists(n) == UNION {[1..k -> Subscriptions] : k \in 1..n}

\* As PageLists: a short collection of records of any kind, or a
\* collection of any length of named records, one to a page.
SubscriptionPageLists(collected) ==
    (IF \A i \in 1..Len(collected) : collected[i] = Subscription("John Doe")
     THEN {<<Subscription("John Doe")>>} ELSE {})
    \cup
    (IF Len(collected) < MaxRecords
     THEN SubscriptionLists(MaxRecords - Len(collected)) ELSE {})

SubscriptionResponses(collected) ==
    TransportErrors \cup StatusErrors \cup MalformedBodies \cup EmptyPages
    \cup {Response("http", "", 200, "object", "list", rs, n) :
            rs \in SubscriptionPageLists(collected), n \in NextPageUrls}

\* A missing credential or a failure: the empty list.
SubsReturnEmpty ==
    /\ pc' = "subs_return_empty"
    /\ result' = <<>>
    /\ UNCHANGED <<page, all_supporters>>

SubsCheckToken ==
    /\ pc = "subs_start"
    /\ IF NoToken(api_token)
       THEN SubsReturnEmpty
       ELSE /\ pc' = "subs_loop"
            /\ page' = 1
            /\ all_supporters' = <<>>
            /\ UNCHANGED result
    /\ UNCHANGED <<api_token, requests, responses>>

\* One iteration of the pagination, the server answering `resp`.
SubsFetchPage(resp) ==
    /\ pc = "subs_loop"
    /\ requests' = Append(requests, [page |-> page, per_page |-> page_size,
                                     status |-> "active"])
    /\ responses' = Append(responses, resp)
    /\ IF resp.kind = "transport_error" \/ BadStatus(resp) \/ resp.json # "object"
       THEN SubsReturnEmpty
       ELSE IF NoSupporters(resp)
       THEN pc' = "subs_names" /\ UNCHANGED <<page, all_supporters, result>>
       ELSE /\ all_supporters' = all_supporters \o Supporters(resp)
            /\ UNCHANGED result
            /\ IF IsLastPage(resp)
               THEN pc' = "subs_names" /\ UNCHANGED page
               ELSE /\ page' = page + 1
                    /\ pc' = IF PastCap(page + 1) THEN "subs_names" ELSE "subs_loop"
    /\ UNCHANGED api_token

\* The filter over the records collected, and the return.
SubsFilterNames ==
    /\ pc = "subs_names"
    /\ pc' = "subs_return"
    /\ result' = ActiveNames(all_supporters)
    /\ UNCHANGED <<api_token, page, all_supporters, requests, responses>>

SubsInit ==
    /\ script = "test_build.py"
    /\ api_token \in ApiTokens
    /\ pc = "subs_start"
    /\ page = 0
    /\ all_supporters = <<>>
    /\ requests = <<>>
    /\ responses = <<>>
    /\ result = <<>>
    /\ mpc = "none"
    /\ manifest = NoManifest
    /\ idx = 0
    /\ fetched = <<>>
    /\ songbooks = <<>>
    /\ supporter_stats = NoStats
    /\ html = NoHtml
    /\ written = <<>>
    /\ abort = ""

SubsNext ==
    \/ SubsCheckToken /\ UNCHANGED <<script, mainVars>>
    \/ /\ pc = "subs_loop"
       /\ \E resp \in SubscriptionResponses(all_supporters) : SubsFetchPage(resp)
       /\ UNCHANGED <<script, mainVars>>
    \/ SubsFilterNames /\ UNCHANGED <<script, mainVars>>

SubsSpec == SubsInit /\ [][SubsNext]_vars

-----------------------------------------------------------------------------
(* Properties of get_buymeacoffee_stats.                                   *)

HasToken == api_token \notin {Missing, ""}
AllSuccess == \A i \in 1..Len(responses) : IsSuccess(responses[i])
LastResponse == responses[Len(responses)]
LiteralFallback == [total_amount |-> 912, supporter_count |-> 61, currency |-> "€"]

\* C1: with a credential and only successful responses, request i asks for
\* page i with per_page=50, no request follows a page that has no record or
\* no next page, the function leaves the loop as soon as it has seen such a
\* page, and it leaves the loop for no other reason than the page cap.
C1_Pagination ==
    (HasToken /\ AllSuccess) =>
        /\ Len(requests) = Len(responses)
        /\ \A i \in 1..Len(requests) : requests[i] = [page |-> i, per_page |-> 50]
        /\ \A i \in 1..(Len(responses) - 1) : ~EndsPaging(responses[i])
        /\ (responses # <<>> /\ EndsPaging(LastResponse)) => pc # "loop"
        /\ (pc \notin {"start", "loop"}) =>
               EndsPaging(LastResponse) \/ Len(requests) = 100

\* Two pages with records, the second without a next page: two requests.
C1_Witness ==
    /\ HasToken /\ AllSuccess /\ pc = "totals"
    /\ Len(requests) = 2
    /\ responses[1].next_page_url = "url"
    /\ responses[2].records # <<>> /\ responses[2].next_page_url = "null"

\* Every record of every fetched page, in page order.
RECURSIVE FetchedRecords(_)
FetchedRecords(resps) ==
    IF resps = <<>> THEN <<>>
    ELSE IF Len(resps) = 1 THEN resps[1].records
    ELSE LET h == Len(resps) \div 2
         IN  FetchedRecords(SubSeq(resps, 1, h)) \o
             FetchedRecords(SubSeq(resps, h + 1, Len(resps)))

\* The sum, in quarters, of unit-count * unit-price over the records of
\* `list` whose two fields both convert.
RECURSIVE SumOfConverted(_)
SumOfConverted(list) ==
    IF list = <<>> THEN 0
    ELSE IF Len(list) = 1
    THEN (IF BothConvert(list[1]) THEN Amount(list[1]).q ELSE 0)
    ELSE LET h == Len(list) \div 2
         IN  SumOfConverted(SubSeq(list, 1, h)) +
             SumOfConverted(SubSeq(list, h + 1, Len(list)))

\* C2 as stated: a computed result counts every fetched record and its
\* total_amount is the sum over the records that convert.
C2_AmountIsSum ==
    pc = "return_106" =>
        /\ result.supporter_count = Len(FetchedRecords(responses))
        /\ result.total_amount * Unit = SumOfConverted(FetchedRecords(responses))

\* C2, amended: a computed result counts every fetched record, converting
\* or not, and its total_amount is the sum over the records that convert,
\* truncated toward zero to an integer.
C2_AmountIsTruncatedSum ==
    pc = "return_106" =>
        LET sum == SumOfConverted(FetchedRecords(responses))
            t   == result.total_amount
        IN  /\ result.supporter_count = Len(FetchedRecords(responses))
            /\ sum >= 0 => (t * Unit <= sum /\ sum < (t + 1) * Unit)
            /\ sum < 0  => (t * Unit >= sum /\ sum > (t - 1) * Unit)

\* Two records, one of which does not convert and the other worth 20.
C2_Witness ==
    /\ pc = "return_106"
    /\ result.supporter_count = 2
    /\ \E i \in 1..2 : ~BothConvert(FetchedRecords(responses)[i])
    /\ result.total_amount = 20

\* C3: without a credential (unset or empty) the function returns the
\* fallback {912, 61, '€'}, from the token check, without any request.
C3_NoTokenFallback ==
    (api_token \in {Missing, ""} /\ pc # "start") =>
        /\ pc = "return_39"
        /\ result = LiteralFallback
        /\ requests = <<>>

C3_Witness == api_token = "" /\ pc = "return_39" /\ result = LiteralFallback

\* C4: a transport error or a status other than 200 is the last response:
\* the function has returned, no request followed, and the value returned
\* is the fallback whatever was collected before.
C4_ErrorFallback ==
    \A i \in 1..Len(responses) :
        IsError(responses[i]) =>
            /\ i = Len(responses) /\ Len(requests) = i
            /\ pc \in {"return_67", "return_114", "return_117"}
            /\ result = LiteralFallback

\* A status other than 200 on page 3, after two pages of records.
C4_Witness ==
    /\ Len(responses) = 3
    /\ LastResponse.kind = "http" /\ LastResponse.status_code = 401
    /\ Len(all_supporters) = 2
    /\ pc = "return_67"

\* C5: never more than 100 requests, and the function returns, whatever the
\* server answers.
C5_Terminates == [](Len(requests) <= 100) /\ <>Returned

\* 100 pages, each with a record and a next page.
C5_Witness ==
    /\ Len(requests) = 100
    /\ \A i \in 1..100 : Continues(responses[i])
    /\ pc = "return_106"

\* C7: no value returned has a negative total_amount or supporter_count.
C7_NonNegative ==
    Returned => result.total_amount >= 0 /\ result.supporter_count >= 0

\* The three kinds of malformed page, each with status 200.
NotJsonObject(resp) == resp.kind = "http" /\ resp.status_code = 200 /\ resp.json # "object"
NoRecordList(resp) == IsSuccess(resp) /\ resp.data \in {Missing, "null"}
HasNonObject(resp) ==
    IsSuccess(resp) /\ \E k \in 1..Len(resp.records) : ~resp.records[k].object
Malformed(resp) == NotJsonObject(resp) \/ NoRecordList(resp) \/ HasNonObject(resp)

-----------------------------------------------------------------------------
(* Properties of get_buymeacoffee_subscriptions.                           *)

HasDisplayName(r) == r.payer_name \notin {Missing, "", "   "}

\* C11: the list returned after the pagination holds, in page and record
\* order, the payer_name of exactly the fetched records whose payer_name is
\* present and not blank; a record whose payer_name is missing, empty or
\* only whitespace adds nothing.
C11_ActiveNames ==
    pc = "subs_return" =>
        LET named == SelectSeq(FetchedRecords(responses), HasDisplayName)
        IN  /\ Len(result) = Len(named)
            /\ \A i \in 1..Len(named) : result[i] = named[i].payer_name

\* A blank name and a name on one page: only the name is returned.
C11_Witness ==
    /\ pc = "subs_return"
    /\ FetchedRecords(responses) = <<Subscription("   "), Subscription("Valid Name")>>
    /\ result = <<"Valid Name">>

-----------------------------------------------------------------------------
(* Properties of the build.                                                *)

Editions == manifest.editions
IndexHtml == "public/index.html"
HtmlWritten == \E i \in 1..Len(written) : written[i] = IndexHtml

\* C6: every catalog entry has a non-empty title, which is the embedded
\* title when that is present and non-empty and the edition identifier
\* otherwise.
C6_TitleNonEmpty ==
    \A i \in 1..Len(songbooks) :
        /\ songbooks[i].title # ""
        /\ songbooks[i].title =
               IF fetched[i].title \notin {Missing, ""}
               THEN fetched[i].title ELSE Editions[i].name

\* C8: once the page is rendered, the renderer was given one entry per
\* edition of the manifest, in the manifest's order, entry i with the url
\* of edition i and the preview path previews/<identifier i>.png, its
\* title and subject those of the i-th document downloaded.
C8_EntriesInManifestOrder ==
    mpc \in {"write", "done"} =>
        /\ Len(html.files) = Len(Editions)
        /\ Len(fetched) = Len(Editions)
        /\ \A i \in 1..Len(Editions) :
            /\ html.files[i].url = Editions[i].url
            /\ html.files[i].preview_image = "previews/" \o Editions[i].name \o ".png"
            /\ html.files[i].title \in {fetched[i].title, Editions[i].name}
            /\ html.files[i].subject \in {fetched[i].subject, ""}

\* A build of two editions that completes.
C8_Witness ==
    /\ mpc = "done"
    /\ Len(Editions) = 2
    /\ html.files[1].preview_image = "previews/regular.png"
    /\ html.files[2].preview_image = "previews/christmas.png"

\* C9: a document that fails to download or to parse is the last one the
\* build took: the build has aborted there, no later edition was processed,
\* and the page was neither rendered nor written.
C9_DocumentFailureAborts ==
    \A i \in 1..Len(fetched) :
        fetched[i].status # "ok" =>
            /\ i = Len(fetched)
            /\ mpc = "aborted"
            /\ idx = i - 1 /\ Len(songbooks) = i - 1
            /\ html = NoHtml
            /\ ~HtmlWritten

\* The first of two documents cannot be parsed.
C9_Witness ==
    /\ Len(Editions) = 2
    /\ Len(fetched) = 1
    /\ fetched[1].status = "parse_error"
    /\ mpc = "aborted"

\* C10 as stated: at a fatal abort the run has written no preview image and
\* no HTML document.
C10_NoPartialArtifact == mpc = "aborted" => written = <<>>

\* The preview images of the first n editions, those whose document has a
\* page, in order.
RECURSIVE PreviewsOf(_)
PreviewsOf(n) ==
    IF n = 0 THEN <<>>
    ELSE PreviewsOf(n - 1) \o
         (IF fetched[n].pages > 0
          THEN <<"public/previews/" \o Editions[n].name \o ".png">> ELSE <<>>)

\* C10, amended: at a fatal abort no HTML document was rendered or written;
\* nothing at all was written when the manifest could not be loaded or has
\* no editions; otherwise exactly the previews of the editions processed
\* before the failure were written, and they remain.
C10_NoHtmlOnAbort ==
    mpc = "aborted" =>
        /\ html = NoHtml
        /\ ~HtmlWritten
        /\ abort \in {"unreachable", "JSONDecodeError", "KeyError: 'editions'"}
               => written = <<>>
        /\ written = PreviewsOf(idx)

\* The second document fails to download after the preview of the first
\* was written.
C10_Witness ==
    /\ mpc = "aborted"
    /\ abort = "download_error"
    /\ idx = 1
    /\ written = <<"public/previews/regular.png">>

\* The preview path the build gives process_pdf_url for edition i.
PreviewPathOf(i) == "public/previews/" \o Editions[i].name \o ".png"

\* C13: for every document that was downloaded and opened, the preview
\* image at the edition's preview path was written if and only if the
\* document has at least one page; a document without a page raised no
\* error and has its catalog entry, with the title and subject
\* process_pdf_url returned for it.
C13_PreviewIffPages ==
    \A i \in 1..Len(fetched) :
        fetched[i].status = "ok" =>
            /\ (\E k \in 1..Len(written) : written[k] = PreviewPathOf(i))
                   <=> fetched[i].pages >= 1
            /\ fetched[i].pages = 0 =>
                   /\ i <= Len(songbooks)
                   /\ idx >= i
                   /\ songbooks[i].title \in {fetched[i].title, Editions[i].name}
                   /\ songbooks[i].subject \in {fetched[i].subject, ""}
                   /\ songbooks[i].url = Editions[i].url

\* A document without a page, then one with a single page: one entry each,
\* one preview.
C13_Witness ==
    /\ Len(fetched) = 2 /\ Len(songbooks) = 2
    /\ fetched[1].status = "ok" /\ fetched[1].pages = 0
    /\ fetched[2].status = "ok" /\ fetched[2].pages = 1
    /\ Editions[2].name = "christmas"
    /\ written = <<"public/previews/christmas.png">>

=============================================================================
